---- MODULE Spec2Model ----
(***************************************************************************)
(* vcd2pwl: the VCD token interpreter (dataflow/parser.py), the document   *)
(* model (dataflow/types.py) and the piecewise-linear emitter, as a state  *)
(* machine.  One step consumes one token of the lexer's stream; the end of *)
(* the stream is followed by the export of the top module.                 *)
(*                                                                         *)
(* Text is modelled structurally: a directive is its name and the sequence *)
(* of its segments, a segment is the sequence of its blank-separated       *)
(* fields, a quoted field is the sequence of the blank-separated arguments *)
(* eval_expr joined.  A float is a pair (integer part, thousandths), its   *)
(* rendering is the pair (integer part, fractional digits).                *)
(*                                                                         *)
(* Left out: top.date, top.version and top._sig_map, which are written and *)
(* never read.                                                             *)
(***************************************************************************)
EXTENDS Integers, Sequences, FiniteSets, TLC

\* ---------------------------------------------------------------- bounds
MaxTokens == 6      \* tokens the lexer yields before the stream ends
MaxTokensDeep == 8  \* the same, of a stream over the Deep alphabet
MaxTick   == 2      \* largest tick a time-change token carries
MaxWidth  == 2      \* largest declared width
MaxRf     == 1      \* largest --trf / --tcrf option value
MaxBase   == 3      \* largest base argument of a call of eval_expr
MaxLit    == 2      \* largest integer part of a number handed to eval_expr

\* ------------------------------------------------------- token alphabets
\* What the tokens of a stream may carry.  A scalar change carries a
\* one-character string; a vector change an int, or a string when a bit is
\* unknown; the timescale header a magnitude and a unit.
\* Wide: every token kind, short streams.
Wide ==
  [maxtok  |-> MaxTokens,
   mags    |-> {1, 10},
   units   |-> {"ns", "ps"},
   scopes  |-> {"top", "sub"},
   names   |-> {"CLK", "A"},
   widths  |-> 1..MaxWidth,
   ids     |-> {"!", "#"},
   types   |-> {"reg", "wire", "integer"},
   scalars |-> {"1", "x"},
   ints    |-> 0..(2^MaxWidth),
   strs    |-> {"z"},
   ticks   |-> 0..MaxTick]

\* Deep: one scope, one identifier code and integer changes only, in
\* streams long enough to revisit a tick and to give a signal MaxTick + 1
\* timeline entries.
Deep ==
  [maxtok  |-> MaxTokensDeep,
   mags    |-> {1},
   units   |-> {"ns", "ps"},
   scopes  |-> {"top"},
   names   |-> {"CLK", "A"},
   widths  |-> 1..MaxWidth,
   ids     |-> {"!"},
   types   |-> {"reg"},
   scalars |-> {},
   ints    |-> 0..(2^MaxWidth - 1),
   strs    |-> {},
   ticks   |-> 0..MaxTick]

\* Named: the streams of Deep, shorter, over more signal names: CLK, two
\* names that differ from it by case and by a suffix, and an unrelated one.
Named ==
  [maxtok  |-> MaxTokens,
   mags    |-> {1},
   units   |-> {"ns"},
   scopes  |-> {"top"},
   names   |-> {"CLK", "clk", "CLK2", "A"},
   widths  |-> 1..MaxWidth,
   ids     |-> {"!"},
   types   |-> {"reg"},
   scalars |-> {},
   ints    |-> 0..(2^MaxWidth - 1),
   strs    |-> {},
   ticks   |-> 0..MaxTick]

\* Modes: streams that declare signals in the top scope and in a side scope
\* and change them, to be read with full off and with full on.
Modes ==
  [maxtok  |-> MaxTokens,
   mags    |-> {1},
   units   |-> {"ns"},
   scopes  |-> {"top", "sub"},
   names   |-> {"A"},
   widths  |-> 1..MaxWidth,
   ids     |-> {"!", "#"},
   types   |-> {"reg", "wire"},
   scalars |-> {"1", "x"},
   ints    |-> 0..(2^MaxWidth - 1),
   strs    |-> {},
   ticks   |-> 0..MaxTick]

\* ----------------------------------------------------------- None values
NoTimescale == [base_num |-> 0, base_unit |-> "None"]
NoModule    == [name |-> "None", variables |-> <<>>]
NoScope     == "None"
NoExpr      == [trf |-> -1, tcrf |-> -1]
NoCall      == [t |-> [whole |-> -1, milli |-> 0], sym |-> "", base |-> 0, unit |-> ""]
NoResult    == [raised |-> "None", args |-> <<>>]
NoToken     == [kind |-> "NONE", id |-> "", sval |-> "", ival |-> -1]

Token(kind, id, sval, ival) == [kind |-> kind, id |-> id, sval |-> sval, ival |-> ival]

\* ------------------------------------------------------- pure functions
\* TimeScale._unit_conversion, as the exponent of ten
UnitExp(u) == CASE u = "ms" -> 3 [] u = "us" -> 6 [] u = "ns" -> 9 [] u = "ps" -> 12

\* TimeScale.convert_to(timestamp, 'ns'): timestamp * (1e9 / table[base_unit])
\* rounded to three decimals, as [whole |-> ns, milli |-> thousandths of a ns].
\* The factor is 1e6, 1e3, 1 or 1e-3, so the rounding keeps the product exact.
\* base_num is not read.
ConvertTo(scale, timestamp) ==
  LET e == UnitExp(scale.base_unit)
  IN  IF e <= 9
      THEN [whole |-> timestamp * (10^(9 - e)), milli |-> 0]
      ELSE [whole |-> timestamp \div 1000, milli |-> timestamp % 1000]

RECURSIVE BitLength(_)
\* int.bit_length() of a non-negative int
BitLength(v) == IF v = 0 THEN 0 ELSE 1 + BitLength(v \div 2)

\* the bits stored least significant first
Int2BitArray_LsbFirst(value, width) ==
  [k \in 1..width |-> (value \div (2^(k - 1))) % 2]

\* one entry more than the width
Int2BitArray_OneMore(value, width) ==
  [k \in 1..(width + 1) |-> (value \div (2^(width + 1 - k))) % 2]

\* Register.int2bit_array past its width check: bits[width-1-i] = (value >> i) & 1
Int2BitArray(value, width) ==
  [k \in 1..width |-> (value \div (2^(width - k))) % 2]

\* a width check that lets one bit too many through
TooWide_OffByOne(value, width) == BitLength(value) > width + 1

\* the width check of Register.int2bit_array
TooWide(value, width) == BitLength(value) > width

\* int(value) of the parser, on the digit strings a scalar change carries
StrToInt(s) == CASE s = "0" -> 0 [] s = "1" -> 1

\* 'x' in value or 'z' in value
HasXZ(s) == s \in {"x", "z"}

\* Register(name, width).__post_init__
NewRegister(name, width) ==
  [name |-> name, width |-> width,
   data |-> [k \in 1..width |-> 0],
   timing_assignments |-> <<>>,
   export_pwl_safe |-> TRUE]

\* dict[key] = value on an insertion-ordered dict kept as a sequence of pairs
DictHas(d, key) == \E i \in 1..Len(d) : d[i].key = key

DictGet(d, key) == d[CHOOSE i \in 1..Len(d) : d[i].key = key].val

\* an assignment that keeps the value a key already has
DictSet_KeepsFirst(d, key, val) ==
  IF DictHas(d, key) THEN d ELSE Append(d, [key |-> key, val |-> val])

DictSet(d, key, val) ==
  IF DictHas(d, key)
  THEN [i \in 1..Len(d) |-> IF d[i].key = key THEN [key |-> key, val |-> val] ELSE d[i]]
  ELSE Append(d, [key |-> key, val |-> val])

\* an update that also clears the x-state tag
RegisterUpdate_ClearsTag(reg, ts, value) ==
  LET bit_value == Int2BitArray(value, reg.width)
  IN  [reg EXCEPT !.timing_assignments = DictSet(@, ts, bit_value),
                  !.data = bit_value,
                  !.export_pwl_safe = TRUE]

\* Register.update past int2bit_array: the entry of the tick and the last state
RegisterUpdate(reg, ts, value) ==
  LET bit_value == Int2BitArray(value, reg.width)
  IN  [reg EXCEPT !.timing_assignments = DictSet(@, ts, bit_value),
                  !.data = bit_value]

\* Register.tag(x_state)
Tag(reg, x_state) == [reg EXCEPT !.export_pwl_safe = ~x_state]

\* ------------------------------------------------------------ the emitter
\* f"{float}": the shortest decimal that reads back, which keeps one zero
\* after the point of a whole number
FloatRepr(x) ==
  LET d1 == x.milli \div 100
      d2 == (x.milli \div 10) % 10
      d3 == x.milli % 10
  IN  [ip |-> x.whole,
       fd |-> IF d3 # 0 THEN <<d1, d2, d3>>
              ELSE IF d2 # 0 THEN <<d1, d2>>
              ELSE <<d1>>]

NoNum == [ip |-> -1, fd |-> <<>>]

\* one blank-separated argument of eval_expr's result
SymArg(s)       == [txt |-> s, num |-> NoNum, unit |-> ""]
NumArg(x, unit) == [txt |-> "", num |-> FloatRepr(x), unit |-> unit]

\* eval_expr(t, base, unit) of a float t, where float() reads the number as
\* t (it does at base = 1): sympify prints the one number, float() reads it
\* back and the f-string formats it
EvalNum(t, base, unit) == <<NumArg(t, unit)>>

\* eval_expr(f'{t} + {sym}', base, unit), where float() reads the number as t:
\* sympify drops a zero term of the sum and prints the symbol before the
\* number
EvalSum(t, sym, base, unit) ==
  IF t.whole = 0 /\ t.milli = 0
  THEN <<SymArg(sym)>>
  ELSE <<SymArg(sym), SymArg("+"), NumArg(t, unit)>>

\* float(arg * int(base)): arg is the text sympify printed for the number, a
\* str, so the product is that text base times over.  The text of a non-zero
\* float has a decimal point, and a text with two of them is no number; 0.0
\* is printed "0" or "0.0" depending on the sympy installed, and "00" reads
\* as 0.0.  ok says that float() returned, val what it returned.
FloatOfRepeated(x, base) ==
  IF base = 1 THEN {[ok |-> TRUE, val |-> x]}
  ELSE IF x.whole = 0 /\ x.milli = 0
  THEN {[ok |-> TRUE, val |-> x], [ok |-> FALSE, val |-> x]}
  ELSE {[ok |-> FALSE, val |-> x]}

\* eval_expr(e, base, unit) with a unit, e being the float t when sym is ""
\* and f'{t} + {sym}' otherwise: the results it may have, the joined
\* arguments or the ValueError of float() that nothing catches
EvalExpr(t, sym, base, unit) ==
  IF sym # "" /\ t.whole = 0 /\ t.milli = 0
  THEN {[raised |-> "", args |-> EvalSum(t, sym, base, unit)]}
  ELSE {IF o.ok
        THEN [raised |-> "",
              args |-> IF sym = "" THEN EvalNum(o.val, base, unit)
                       ELSE EvalSum(o.val, sym, base, unit)]
        ELSE [raised |-> "ValueError", args |-> <<>>]
          : o \in FloatOfRepeated(t, base)}

\* the fields of a segment
Plain(s)    == [q |-> FALSE, args |-> <<SymArg(s)>>]
Quoted(a)   == [q |-> TRUE, args |-> a]

\* crnt_v
Level(bit) == IF bit # 0 THEN "vvdd" ELSE "0"

\* the clock parameter for every name that contains CLK
RfIdentifier_Contains(name) == IF name \in {"CLK", "CLK2"} THEN "tcrf" ELSE "trf"

\* rf_identifier
RfIdentifier(name) == IF name = "CLK" THEN "tcrf" ELSE "trf"

\* the bus index not reversed
PwlName_NotReversed(reg, m) ==
  IF reg.width > 1
  THEN [base |-> reg.name, idx |-> m]
  ELSE [base |-> reg.name, idx |-> -1]

\* pwl_name of data_idx m (from 0): idx -1 is the bare name
PwlName(reg, m) ==
  IF reg.width > 1
  THEN [base |-> reg.name, idx |-> reg.width - 1 - m]
  ELSE [base |-> reg.name, idx |-> -1]

\* f"0 {crnt_v}\n+"
InitialSegment(crnt_v) == <<Plain("0"), Plain(crnt_v)>>

\* the branch on expr.get(rf_identifier) == 0 of a tick whose level changed
TransitionSegment(name, scale, expr, ts, prev, crnt_v) ==
  LET rf_identifier == RfIdentifier(name)
      t      == ConvertTo(scale, ts)
      t_expr == EvalNum(t, 1, "ns")
  IN  IF expr[rf_identifier] = 0
      THEN <<Quoted(t_expr), Plain(prev),
             Quoted(EvalSum(t, rf_identifier, 1, "ns")), Plain(crnt_v)>>
      ELSE <<Quoted(t_expr), Plain(crnt_v)>>

\* a first tick anchored at its own time instead of 0
SegmentAt_InitialAtTick(name, scale, expr, ts, prev, crnt_v) ==
  IF prev = "na"
  THEN <<(<<Quoted(EvalNum(ConvertTo(scale, ts), 1, "ns")), Plain(crnt_v)>>)>>
  ELSE IF prev # crnt_v
  THEN <<TransitionSegment(name, scale, expr, ts, prev, crnt_v)>>
  ELSE <<>>

\* a segment for every tick after the first, changed or not
SegmentAt_NoSkip(name, scale, expr, ts, prev, crnt_v) ==
  IF prev = "na"
  THEN <<InitialSegment(crnt_v)>>
  ELSE <<TransitionSegment(name, scale, expr, ts, prev, crnt_v)>>

\* what one timeline entry adds to the line: the initial value at the first
\* entry, a transition when the level changed, nothing when it did not
SegmentAt(name, scale, expr, ts, prev, crnt_v) ==
  IF prev = "na"
  THEN <<InitialSegment(crnt_v)>>
  ELSE IF prev # crnt_v
  THEN <<TransitionSegment(name, scale, expr, ts, prev, crnt_v)>>
  ELSE <<>>

RECURSIVE Segments(_, _, _, _, _, _)
\* the loop over timing_assignments.items() from entry i on, _prev being prev
Segments(reg, m, scale, expr, i, prev) ==
  IF i > Len(reg.timing_assignments) THEN <<>>
  ELSE LET e      == reg.timing_assignments[i]
           crnt_v == Level(e.val[m + 1])
       IN  SegmentAt(reg.name, scale, expr, e.key, prev, crnt_v)
             \o Segments(reg, m, scale, expr, i + 1, crnt_v)

\* an emitter that skips a signal that has no timeline entry
GeneratePiecewiseLinear_SkipsEmpty(reg, scale, expr) ==
  IF ~reg.export_pwl_safe \/ reg.timing_assignments = <<>> THEN <<>>
  ELSE [k \in 1..reg.width |->
          [name |-> PwlName(reg, k - 1),
           segs |-> Segments(reg, k - 1, scale, expr, 1, "na")]]

\* Register.generate_piecewise_linear: one directive per entry of self.data,
\* none for a signal tagged x-state
GeneratePiecewiseLinear(reg, scale, expr) ==
  IF ~reg.export_pwl_safe THEN <<>>
  ELSE [k \in 1..reg.width |->
          [name |-> PwlName(reg, k - 1),
           segs |-> Segments(reg, k - 1, scale, expr, 1, "na")]]

\* Module.export_pwl: the text of every variable, in dict order
ModuleExportPwl(m, regs, scale, expr) ==
  [i \in 1..Len(m.variables) |->
     GeneratePiecewiseLinear(regs[m.variables[i].val], scale, expr)]

\* ------------------------------------------------------------- variables
VARIABLES
  pc,              \* "parsing", "parsed", "failed" (parse returned None),
                   \* "exported", "crashed", or "resolving" and "resolved"
                   \* in a call of eval_expr on its own
  err,             \* the exception that ended the run, "" if none
  ntok,            \* tokens consumed
  tok,             \* _toc, the token consumed last
  full,            \* the full parameter of _parse_group
  timescale,       \* top.timescale
  module,          \* top.module
  shadow_modules,  \* top._shadow_modules
  current_module,  \* top.current_module: 0 None, 1 module, k+1 the k-th shadow
  signals,         \* top.signals, the Register and Wire objects by creation
  timestamp,       \* _timestamp of _parse_group
  scope,           \* scope of _parse_group
  expr,            \* the expr argument of export_pwl, unset before the call
  out,             \* the text written by export_pwl, one chunk per variable
  written,         \* the output file has been opened for writing
  eval_args,       \* the arguments of a call of eval_expr on its own
  eval_result      \* what that call returned or raised

vars == <<pc, err, ntok, tok, full, timescale, module, shadow_modules,
          current_module, signals, timestamp, scope, expr, out, written,
          eval_args, eval_result>>

doc == <<timescale, module, shadow_modules, current_module, signals>>

Init ==
  /\ pc = "parsing"
  /\ err = ""
  /\ ntok = 0
  /\ tok = NoToken
  /\ full = FALSE
  /\ timescale = NoTimescale
  /\ module = NoModule
  /\ shadow_modules = <<>>
  /\ current_module = 0
  /\ signals = <<>>
  /\ timestamp = 0
  /\ scope = NoScope
  /\ expr = NoExpr
  /\ out = <<>>
  /\ written = FALSE
  /\ eval_args = NoCall
  /\ eval_result = NoResult

\* next(self.t) yields a token
Consume(A, t) ==
  /\ pc = "parsing"
  /\ ntok < A.maxtok
  /\ ntok' = ntok + 1
  /\ tok' = t

\* an exception leaves _parse_group and parse
Crash(e) ==
  /\ pc' = "crashed"
  /\ err' = e

Continue == UNCHANGED <<pc, err>>

\* TokenKind.TIMESCALE
Timescale(A) ==
  \E num \in A.mags, unit \in A.units :
    /\ Consume(A, Token("TIMESCALE", "", "", -1))
    /\ timescale' = [base_num |-> num, base_unit |-> unit]
    /\ Continue
    /\ UNCHANGED <<full, module, shadow_modules, current_module, signals,
                   timestamp, scope, expr, out,
                   written, eval_args, eval_result>>

\* TokenKind.SCOPE: VCDModule.update_module
Scope(A) ==
  \E name \in A.scopes :
    /\ Consume(A, Token("SCOPE", "", "", -1))
    /\ scope' = name
    /\ IF module = NoModule
       THEN /\ module' = [name |-> name, variables |-> <<>>]
            /\ current_module' = 1
            /\ UNCHANGED shadow_modules
       ELSE IF module.name # name
       THEN /\ shadow_modules' = Append(shadow_modules, [name |-> name, variables |-> <<>>])
            /\ current_module' = Len(shadow_modules) + 2
            /\ UNCHANGED module
       ELSE UNCHANGED <<module, shadow_modules, current_module>>
    /\ Continue
    /\ UNCHANGED <<full, timescale, signals, timestamp, expr, out,
                   written, eval_args, eval_result>>

\* TokenKind.UPSCOPE
Upscope(A) ==
  /\ Consume(A, Token("UPSCOPE", "", "", -1))
  /\ scope' = NoScope
  /\ Continue
  /\ UNCHANGED <<full, timescale, module, shadow_modules, current_module,
                 signals, timestamp, expr, out,
                   written, eval_args, eval_result>>

\* every declaration attached to the top module, whatever scope is current
AddSignal_AlwaysTop(reg, id) ==
  LET n == Len(signals) + 1
  IN  /\ signals' = Append(signals, reg)
      /\ module' = [module EXCEPT !.variables = DictSet(@, id, n)]
      /\ UNCHANGED shadow_modules

\* Module.add_signal on top.current_module, then top.signals.append
AddSignal(reg, id) ==
  LET n == Len(signals) + 1
  IN  /\ signals' = Append(signals, reg)
      /\ IF current_module = 1
         THEN /\ module' = [module EXCEPT !.variables = DictSet(@, id, n)]
              /\ UNCHANGED shadow_modules
         ELSE /\ shadow_modules' =
                   [shadow_modules EXCEPT ![current_module - 1].variables = DictSet(@, id, n)]
              /\ UNCHANGED module

\* TokenKind.VAR: VCDModule.add_reg / add_wire for a reg or a wire, nothing for
\* any other variable type
Var(A) ==
  \E name \in A.names, width \in A.widths, id \in A.ids, type \in A.types :
    /\ Consume(A, Token("VAR", id, "", -1))
    /\ IF type \in {"reg", "wire"}
       THEN IF current_module = 0
            THEN /\ Crash("AttributeError")
                 /\ UNCHANGED <<module, shadow_modules, signals>>
            ELSE /\ AddSignal(NewRegister(name, width), id)
                 /\ Continue
       ELSE /\ Continue
            /\ UNCHANGED <<module, shadow_modules, signals>>
    /\ UNCHANGED <<full, timescale, current_module, timestamp, scope, expr, out,
                   written, eval_args, eval_result>>

\* TokenKind.CHANGE_TIME: the message names top.timescale.base_unit
ChangeTime(A) ==
  \E t \in A.ticks :
    /\ Consume(A, Token("CHANGE_TIME", "", "", -1))
    /\ IF timescale = NoTimescale
       THEN /\ Crash("AttributeError")
            /\ UNCHANGED timestamp
       ELSE /\ timestamp' = t
            /\ Continue
    /\ UNCHANGED <<full, timescale, module, shadow_modules, current_module,
                   signals, scope, expr, out,
                   written, eval_args, eval_result>>

\* VCDModule.is_reg_top_module
IsRegTopModule(id) == DictHas(module.variables, id)

\* an update that looks at the value before it converts the time
UpdateTimingAssignment_TagFirst(id, isstr, value) ==
  IF ~full /\ module = NoModule
  THEN Crash("AttributeError") /\ UNCHANGED signals
  ELSE IF ~full /\ ~IsRegTopModule(id)
  THEN Continue /\ UNCHANGED signals
  ELSE IF module = NoModule
  THEN Crash("AttributeError") /\ UNCHANGED signals
  ELSE IF ~IsRegTopModule(id)
  THEN Crash("SystemExit") /\ UNCHANGED signals
  ELSE LET r == DictGet(module.variables, id)
       IN  IF isstr
           THEN /\ signals' = [signals EXCEPT ![r] = Tag(@, TRUE)]
                /\ Continue
           ELSE IF timescale = NoTimescale
           THEN Crash("AttributeError") /\ UNCHANGED signals
           ELSE IF TooWide(value, signals[r].width)
           THEN Crash("ValueError") /\ UNCHANGED signals
           ELSE /\ signals' = [signals EXCEPT ![r] = RegisterUpdate(@, timestamp, value)]
                /\ Continue

\* an update that records an unknown value as zero besides tagging the signal
UpdateTimingAssignment_XZAsZero(id, isstr, value) ==
  IF ~full /\ module = NoModule
  THEN Crash("AttributeError") /\ UNCHANGED signals
  ELSE IF ~full /\ ~IsRegTopModule(id)
  THEN Continue /\ UNCHANGED signals
  ELSE IF timescale = NoTimescale
  THEN Crash("AttributeError") /\ UNCHANGED signals
  ELSE IF module = NoModule
  THEN Crash("AttributeError") /\ UNCHANGED signals
  ELSE IF ~IsRegTopModule(id)
  THEN Crash("SystemExit") /\ UNCHANGED signals
  ELSE LET r == DictGet(module.variables, id)
       IN  IF isstr
           THEN /\ signals' = [signals EXCEPT ![r] = Tag(RegisterUpdate(@, timestamp, 0), TRUE)]
                /\ Continue
           ELSE IF TooWide(value, signals[r].width)
           THEN Crash("ValueError") /\ UNCHANGED signals
           ELSE /\ signals' = [signals EXCEPT ![r] = RegisterUpdate(@, timestamp, value)]
                /\ Continue

\* with full on, an update that looks the identifier up in the side scopes
\* when the top scope does not have it
UpdateTimingAssignment_AllScopes(id, isstr, value) ==
  IF ~full /\ module = NoModule
  THEN Crash("AttributeError") /\ UNCHANGED signals
  ELSE IF ~full /\ ~IsRegTopModule(id)
  THEN Continue /\ UNCHANGED signals
  ELSE IF timescale = NoTimescale
  THEN Crash("AttributeError") /\ UNCHANGED signals
  ELSE IF module = NoModule
  THEN Crash("AttributeError") /\ UNCHANGED signals
  ELSE IF ~IsRegTopModule(id)
          /\ \A k \in 1..Len(shadow_modules) : ~DictHas(shadow_modules[k].variables, id)
  THEN Crash("SystemExit") /\ UNCHANGED signals
  ELSE LET r == IF IsRegTopModule(id)
                THEN DictGet(module.variables, id)
                ELSE LET k == CHOOSE k \in 1..Len(shadow_modules) :
                                 DictHas(shadow_modules[k].variables, id)
                     IN  DictGet(shadow_modules[k].variables, id)
       IN  IF isstr
           THEN /\ signals' = [signals EXCEPT ![r] = Tag(@, TRUE)]
                /\ Continue
           ELSE IF TooWide(value, signals[r].width)
           THEN Crash("ValueError") /\ UNCHANGED signals
           ELSE /\ signals' = [signals EXCEPT ![r] = RegisterUpdate(@, timestamp, value)]
                /\ Continue

\* VCDModule.update_timing_assignment(_timestamp, id, value, full): isstr says
\* that value is still a string (it carries x or z)
UpdateTimingAssignment(id, isstr, value) ==
  IF ~full /\ module = NoModule
  THEN Crash("AttributeError") /\ UNCHANGED signals
  ELSE IF ~full /\ ~IsRegTopModule(id)
  THEN Continue /\ UNCHANGED signals
  ELSE IF timescale = NoTimescale
  THEN Crash("AttributeError") /\ UNCHANGED signals
  ELSE IF module = NoModule
  THEN Crash("AttributeError") /\ UNCHANGED signals
  ELSE IF ~IsRegTopModule(id)
  THEN Crash("SystemExit") /\ UNCHANGED signals
  ELSE LET r == DictGet(module.variables, id)
       IN  IF isstr
           THEN /\ signals' = [signals EXCEPT ![r] = Tag(@, TRUE)]
                /\ Continue
           ELSE IF TooWide(value, signals[r].width)
           THEN Crash("ValueError") /\ UNCHANGED signals
           ELSE /\ signals' = [signals EXCEPT ![r] = RegisterUpdate(@, timestamp, value)]
                /\ Continue

\* TokenKind.CHANGE_SCALAR: a digit string is converted, x and z are passed on
ChangeScalar(A) ==
  \E id \in A.ids, value \in A.scalars :
    /\ Consume(A, Token("CHANGE_SCALAR", id, value, -1))
    /\ IF HasXZ(value)
       THEN UpdateTimingAssignment(id, TRUE, -1)
       ELSE UpdateTimingAssignment(id, FALSE, StrToInt(value))
    /\ UNCHANGED <<full, timescale, module, shadow_modules, current_module,
                   timestamp, scope, expr, out,
                   written, eval_args, eval_result>>

\* TokenKind.CHANGE_VECTOR carrying an int
ChangeVectorInt(A) ==
  \E id \in A.ids, value \in A.ints :
    /\ Consume(A, Token("CHANGE_VECTOR", id, "", value))
    /\ UpdateTimingAssignment(id, FALSE, value)
    /\ UNCHANGED <<full, timescale, module, shadow_modules, current_module,
                   timestamp, scope, expr, out,
                   written, eval_args, eval_result>>

\* TokenKind.CHANGE_VECTOR carrying a string with an unknown bit
ChangeVectorStr(A) ==
  \E id \in A.ids, value \in A.strs :
    /\ Consume(A, Token("CHANGE_VECTOR", id, value, -1))
    /\ UpdateTimingAssignment(id, TRUE, -1)
    /\ UNCHANGED <<full, timescale, module, shadow_modules, current_module,
                   timestamp, scope, expr, out,
                   written, eval_args, eval_result>>

\* TokenKind.DUMPVAR and every kind _parse_group has no branch for
OtherToken(A) ==
  /\ Consume(A, Token("DUMPVAR", "", "", -1))
  /\ Continue
  /\ UNCHANGED <<full, timescale, module, shadow_modules, current_module,
                 signals, timestamp, scope, expr, out,
                   written, eval_args, eval_result>>

\* StopIteration: _parse_group returns top
EndOfStream ==
  /\ pc = "parsing"
  /\ pc' = "parsed"
  /\ tok' = Token("EOF", "", "", -1)
  /\ UNCHANGED <<err, ntok, full, timescale, module, shadow_modules,
                 current_module, signals, timestamp, scope, expr, out,
                   written, eval_args, eval_result>>

\* the exceptions next(self.t) may raise on a malformed stream
LexerErrors == {"AssertionError", "VCDParseError"}

\* an error handler that returns the document built so far
LexError_ReturnsPartial ==
  \E e \in LexerErrors :
    /\ pc = "parsing"
    /\ tok' = Token("ERROR", "", "", -1)
    /\ IF e = "AssertionError"
       THEN /\ pc' = "parsed"
            /\ UNCHANGED err
       ELSE Crash(e)
    /\ UNCHANGED <<ntok, full, timescale, module, shadow_modules, current_module,
                   signals, timestamp, scope, expr, out, written, eval_args,
                   eval_result>>

\* next(self.t) raises: parse catches an AssertionError, logs it and returns
\* None ("failed"); any other exception leaves parse.  Either way top is
\* dropped; the variables keep what it held at that moment.
LexError ==
  \E e \in LexerErrors :
    /\ pc = "parsing"
    /\ tok' = Token("ERROR", "", "", -1)
    /\ IF e = "AssertionError"
       THEN /\ pc' = "failed"
            /\ UNCHANGED err
       ELSE Crash(e)
    /\ UNCHANGED <<ntok, full, timescale, module, shadow_modules, current_module,
                   signals, timestamp, scope, expr, out, written, eval_args,
                   eval_result>>

\* dump: vcd.export_pwl(output_file, expr) with the --trf and --tcrf options.
\* None has no export_pwl, so after a failed parse the call is never made; a
\* VCDModule opens the output file and then asks its top module for the
\* text.  The exception reaches __main__, which exits with -1.
ExportPwl ==
  \E trf \in 0..MaxRf, tcrf \in 0..MaxRf :
    /\ pc \in {"parsed", "failed"}
    /\ IF pc = "failed"
       THEN /\ Crash("AttributeError")
            /\ UNCHANGED <<expr, out, written>>
       ELSE IF module = NoModule
       THEN /\ Crash("AttributeError")
            /\ expr' = [trf |-> trf, tcrf |-> tcrf]
            /\ written' = TRUE
            /\ UNCHANGED out
       ELSE /\ pc' = "exported"
            /\ expr' = [trf |-> trf, tcrf |-> tcrf]
            /\ written' = TRUE
            /\ out' = ModuleExportPwl(module, signals, timescale, expr')
            /\ UNCHANGED err
    /\ UNCHANGED <<ntok, tok, full, timescale, module, shadow_modules,
                   current_module, signals, timestamp, scope,
                   eval_args, eval_result>>

Next ==
  \/ Timescale(Wide)
  \/ Scope(Wide)
  \/ Upscope(Wide)
  \/ Var(Wide)
  \/ ChangeTime(Wide)
  \/ ChangeScalar(Wide)
  \/ ChangeVectorInt(Wide)
  \/ ChangeVectorStr(Wide)
  \/ OtherToken(Wide)
  \/ LexError
  \/ EndOfStream
  \/ ExportPwl

Spec == Init /\ [][Next]_vars

\* the same program on streams over the Deep alphabet
NextDeep ==
  \/ Timescale(Deep)
  \/ Scope(Deep)
  \/ Var(Deep)
  \/ ChangeTime(Deep)
  \/ ChangeVectorInt(Deep)
  \/ EndOfStream
  \/ ExportPwl

SpecDeep == Init /\ [][NextDeep]_vars

\* the same program on streams over the Named alphabet
NextNamed ==
  \/ Timescale(Named)
  \/ Scope(Named)
  \/ Var(Named)
  \/ ChangeTime(Named)
  \/ ChangeVectorInt(Named)
  \/ EndOfStream
  \/ ExportPwl

SpecNamed == Init /\ [][NextNamed]_vars

\* ------------------------------------------ _parse_group in either mode
\* _parse_group(full=...) called with the default, as parse does, or with
\* full=True
InitFull ==
  /\ pc = "parsing"
  /\ err = ""
  /\ ntok = 0
  /\ tok = NoToken
  /\ full \in BOOLEAN
  /\ timescale = NoTimescale
  /\ module = NoModule
  /\ shadow_modules = <<>>
  /\ current_module = 0
  /\ signals = <<>>
  /\ timestamp = 0
  /\ scope = NoScope
  /\ expr = NoExpr
  /\ out = <<>>
  /\ written = FALSE
  /\ eval_args = NoCall
  /\ eval_result = NoResult

NextFull ==
  \/ Timescale(Modes)
  \/ Scope(Modes)
  \/ Var(Modes)
  \/ ChangeTime(Modes)
  \/ ChangeScalar(Modes)
  \/ ChangeVectorInt(Modes)
  \/ EndOfStream

SpecFull == InitFull /\ [][NextFull]_vars

\* ------------------------------------------------ eval_expr on its own
\* the calls eval_expr(e, base, unit): a number of 1 or more with up to three
\* decimals, bare or in a sum with a parameter name, a base and a unit
EvalInputs ==
  [t    : [whole : 1..MaxLit, milli : {0, 5, 250}],
   sym  : {"", "trf", "tcrf"},
   base : 1..MaxBase,
   unit : {"ns", "ps"}]

InitEval ==
  /\ pc = "resolving"
  /\ err = ""
  /\ ntok = 0
  /\ tok = NoToken
  /\ full = FALSE
  /\ timescale = NoTimescale
  /\ module = NoModule
  /\ shadow_modules = <<>>
  /\ current_module = 0
  /\ signals = <<>>
  /\ timestamp = 0
  /\ scope = NoScope
  /\ expr = NoExpr
  /\ out = <<>>
  /\ written = FALSE
  /\ eval_args \in EvalInputs
  /\ eval_result = NoResult

\* the call returns or raises
Resolve ==
  /\ pc = "resolving"
  /\ pc' = "resolved"
  /\ eval_result' \in EvalExpr(eval_args.t, eval_args.sym, eval_args.base, eval_args.unit)
  /\ UNCHANGED <<err, ntok, tok, full, timescale, module, shadow_modules,
                 current_module, signals, timestamp, scope, expr, out, written,
                 eval_args>>

NextEval == Resolve

SpecEval == InitEval /\ [][NextEval]_vars


\* ------------------------------------------------- reading the document
\* the Register the i-th variable of the top module maps to
TopReg(i) == signals[module.variables[i].val]

\* the Register objects the top module maps an identifier code to
TopRegs == {module.variables[i].val : i \in 1..Len(module.variables)}

\* the level of bit j (0 the least significant) of the integer a bit-vector
\* encodes, index 1 being the most significant bit
BitsToInt(b) ==
  LET W == Len(b)
      RECURSIVE Sum(_)
      Sum(i) == IF i > W THEN 0 ELSE b[i] * (2^(W - i)) + Sum(i + 1)
  IN  Sum(1)

BitLevel(b, j) == IF (BitsToInt(b) \div (2^j)) % 2 = 1 THEN "vvdd" ELSE "0"

\* the levels of bit j along the timeline of a Register, in insertion order
LevelsOf(reg, j) ==
  [n \in 1..Len(reg.timing_assignments) |-> BitLevel(reg.timing_assignments[n].val, j)]

\* the timeline positions after the first whose level differs from the one before
ChangesOf(lv) == {n \in 2..Len(lv) : lv[n] # lv[n - 1]}

\* the n-th smallest position of a set of positions
Nth(S, n) == CHOOSE x \in S : Cardinality({y \in S : y < x}) = n - 1

\* the bit a directive of a Register reports: the k-th directive of a bus of
\* width W is bit W - k
BitOfDirective(reg, k) == reg.width - k

\* the level a segment ends on, its last field
TargetOf(seg) == seg[Len(seg)].args[1].txt

IsLevelField(f, lv) == ~f.q /\ Len(f.args) = 1 /\ f.args[1].txt = lv

\* '<t>' <level>
IsStep(seg, lv) == Len(seg) = 2 /\ seg[1].q /\ IsLevelField(seg[2], lv)

\* '<t>' <previous> '<t>+<param>' <level>
IsRamp(seg, prev, lv) ==
  /\ Len(seg) = 4
  /\ seg[1].q /\ IsLevelField(seg[2], prev)
  /\ seg[3].q /\ IsLevelField(seg[4], lv)

\* the rise/fall option value that applies to a signal name
ParamOf(name) == IF name = "CLK" THEN expr.tcrf ELSE expr.trf

\* the directives of the exported text with the Register each comes from
ExportedDirectives ==
  UNION {{<<i, k>> : k \in 1..Len(out[i])} : i \in 1..Len(out)}

\* ------------------------------------------------------------------ C1
\* C1: for every timeline tick after the first whose level differs from the
\* previous level, the emitted segment is the step '<t>' <level> when the
\* selected rise/fall parameter is zero and the ramp
\* '<t>' <previous> '<t>+<param>' <level> when it is not.
C1_StepIfZeroElseRamp ==
  pc = "exported" =>
    \A d \in ExportedDirectives :
      LET reg  == TopReg(d[1])
          lv   == LevelsOf(reg, BitOfDirective(reg, d[2]))
          segs == out[d[1]][d[2]].segs
      IN  \A n \in 2..Len(segs) :
            n - 1 <= Cardinality(ChangesOf(lv)) =>
              LET c == Nth(ChangesOf(lv), n - 1)
              IN  IF ParamOf(reg.name) = 0
                  THEN IsStep(segs[n], lv[c])
                  ELSE IsRamp(segs[n], lv[c - 1], lv[c])

\* ------------------------------------------------------------------ C2
\* the last token applied an x or z change to a signal of the top scope
XZApplied ==
  /\ pc = "parsing"
  /\ tok.kind \in {"CHANGE_SCALAR", "CHANGE_VECTOR"}
  /\ HasXZ(tok.sval)
  /\ module # NoModule
  /\ IsRegTopModule(tok.id)

\* the flag after such a change, and the chunk of each top-scope signal
C2_State ==
  /\ XZApplied => ~signals[DictGet(module.variables, tok.id)].export_pwl_safe
  /\ pc = "exported" =>
       \A i \in 1..Len(out) :
         IF TopReg(i).export_pwl_safe
         THEN Len(out[i]) = TopReg(i).width
         ELSE out[i] = <<>>

\* C2: once a value change carrying x or z has been applied to a signal of the
\* top scope, the signal's export-safe flag is false and no later token sets
\* it back; the exported text has no directive for a signal whose flag is
\* false, and has the directives of every top-scope signal whose flag is true.
C2_XZExcludedForever ==
  [][ /\ C2_State'
      /\ Len(signals') >= Len(signals)
      /\ \A r \in 1..Len(signals) :
           ~signals[r].export_pwl_safe => ~signals'[r].export_pwl_safe ]_vars

\* a tagged signal with a recorded update is left out, another one is emitted
C2_Witness ==
  /\ pc = "exported"
  /\ \E i, j \in 1..Len(out) :
       /\ ~TopReg(i).export_pwl_safe
       /\ TopReg(i).timing_assignments # <<>>
       /\ out[i] = <<>>
       /\ TopReg(j).export_pwl_safe
       /\ out[j] # <<>>

\* ------------------------------------------------------------------ C3
\* C3: a tick whose level equals the level of the tick before emits nothing:
\* consecutive segments of a directive end on different levels, and a
\* directive has one segment for the first tick plus one per level change
\* (none when the timeline is empty).
C3_TransitionCompression ==
  pc = "exported" =>
    \A d \in ExportedDirectives :
      LET reg  == TopReg(d[1])
          lv   == LevelsOf(reg, BitOfDirective(reg, d[2]))
          segs == out[d[1]][d[2]].segs
      IN  /\ \A n \in 2..Len(segs) : TargetOf(segs[n]) # TargetOf(segs[n - 1])
          /\ Len(segs) = IF Len(lv) = 0 THEN 0 ELSE 1 + Cardinality(ChangesOf(lv))

\* a directive over three ticks, one of which repeats the level before it
C3_Witness ==
  /\ pc = "exported"
  /\ \E d \in ExportedDirectives :
       LET reg == TopReg(d[1])
           lv  == LevelsOf(reg, BitOfDirective(reg, d[2]))
       IN  /\ Len(lv) = 3
           /\ Cardinality(ChangesOf(lv)) = 1
           /\ Len(out[d[1]][d[2]].segs) = 2

\* ------------------------------------------------------------------ C4
\* C4: the first segment of every directive with a non-empty timeline is
\* "0 <level>", the level being that of the first timeline entry in insertion
\* order, whatever that entry's tick: "vvdd" for bit 1, "0" for bit 0.
C4_InitialSegmentAtZero ==
  pc = "exported" =>
    \A d \in ExportedDirectives :
      LET reg   == TopReg(d[1])
          ta    == reg.timing_assignments
          segs  == out[d[1]][d[2]].segs
          first == ta[1].val[reg.width - BitOfDirective(reg, d[2])]
      IN  ta # <<>> =>
            /\ Len(segs) >= 1
            /\ Len(segs[1]) = 2
            /\ IsLevelField(segs[1][1], "0")
            /\ IsLevelField(segs[1][2], IF first = 1 THEN "vvdd" ELSE "0")

\* a first entry at a tick greater than 0 whose bit is 1
C4_Witness ==
  /\ pc = "exported"
  /\ \E d \in ExportedDirectives :
       LET reg == TopReg(d[1])
       IN  /\ reg.timing_assignments # <<>>
           /\ reg.timing_assignments[1].key > 0
           /\ TargetOf(out[d[1]][d[2]].segs[1]) = "vvdd"

\* ------------------------------------------------------------------ C5
\* C5: an export-safe signal of width W > 1 yields W directives named
\* name[W-1], ..., name[0] in that order, the directive name[j] following bit
\* j of the integer stored at each tick; a signal of width 1 yields one
\* directive under the bare name.
C5_BusDirectivesMsbFirst ==
  pc = "exported" =>
    \A i \in 1..Len(out) :
      LET reg == TopReg(i)
          W   == reg.width
      IN  reg.export_pwl_safe =>
            /\ Len(out[i]) = W
            /\ \A k \in 1..W :
                 LET j    == W - k
                     lv   == LevelsOf(reg, j)
                     segs == out[i][k].segs
                 IN  /\ out[i][k].name.base = reg.name
                     /\ out[i][k].name.idx = IF W > 1 THEN j ELSE -1
                     /\ Len(segs) = IF Len(lv) = 0 THEN 0 ELSE 1 + Cardinality(ChangesOf(lv))
                     /\ Len(lv) > 0 => TargetOf(segs[1]) = lv[1]
                     /\ \A n \in 2..Len(segs) :
                          TargetOf(segs[n]) = lv[Nth(ChangesOf(lv), n - 1)]

\* a bus holding binary 01: the directive of bit 1 is at "0", that of bit 0
\* at "vvdd", each with one segment
C5_Witness ==
  /\ pc = "exported"
  /\ \E i \in 1..Len(out) :
       /\ TopReg(i).width = 2
       /\ Len(out[i]) = 2
       /\ out[i][1].name.idx = 1 /\ Len(out[i][1].segs) = 1
       /\ TargetOf(out[i][1].segs[1]) = "0"
       /\ out[i][2].name.idx = 0 /\ Len(out[i][2].segs) = 1
       /\ TargetOf(out[i][2].segs[1]) = "vvdd"
       /\ BitsToInt(TopReg(i).timing_assignments[1].val) = 1
\* ------------------------------------------------------------------ C6
\* the number a rendered float stands for, in thousandths
NumValue(num) ==
  LET fd == num.fd
      d(i) == IF i <= Len(fd) THEN fd[i] ELSE 0
  IN  num.ip * 1000 + d(1) * 100 + d(2) * 10 + d(3)

\* thousandths of a nanosecond in one unit of the timescale
MilliNsPer(u) == CASE u = "ms" -> 10^9 [] u = "us" -> 10^6 [] u = "ns" -> 1000 [] u = "ps" -> 1

\* C6: convert_to(ticks, 'ns') is ticks * base_num * (table['ns'] /
\* table[base_unit]) for every base_num of the timescale header: the time of
\* every transition segment is that product for the tick of its entry.
C6_ConvertScalesByBaseNum ==
  pc = "exported" =>
    \A d \in ExportedDirectives :
      LET reg  == TopReg(d[1])
          lv   == LevelsOf(reg, BitOfDirective(reg, d[2]))
          segs == out[d[1]][d[2]].segs
      IN  \A n \in 2..Len(segs) :
            LET tick == reg.timing_assignments[Nth(ChangesOf(lv), n - 1)].key
            IN  NumValue(segs[n][1].args[1].num)
                  = tick * timescale.base_num * MilliNsPer(timescale.base_unit)

\* ------------------------------------------------------------------ C7
\* the token consumed by a step is an int change for a signal of the top
\* scope, reaching Register.update
ReachesUpdate ==
  /\ ntok' = ntok + 1
  /\ tok'.kind = "CHANGE_VECTOR" /\ tok'.sval = ""
  /\ timescale # NoTimescale
  /\ module # NoModule
  /\ IsRegTopModule(tok'.id)

\* C7: an update with an integer whose bit_length() exceeds the width fails
\* with the width-overflow error, writes no timeline entry and leaves the
\* last-known state as it was.
C7_TooWideFails ==
  [][ ReachesUpdate =>
        LET r == DictGet(module.variables, tok'.id)
        IN  tok'.ival >= 2^(signals[r].width) =>
              /\ pc' = "crashed"
              /\ err' = "ValueError"
              /\ signals' = signals ]_vars

\* the overflow of a signal that holds an earlier update
C7_Witness ==
  /\ pc = "crashed"
  /\ err = "ValueError"
  /\ tok.kind = "CHANGE_VECTOR"
  /\ \E r \in TopRegs :
       /\ module.variables # <<>>
       /\ r = DictGet(module.variables, tok.id)
       /\ signals[r].timing_assignments # <<>>
       /\ tok.ival >= 2^(signals[r].width)

\* ------------------------------------------------------------------ C8
\* an int change was applied to a signal of the top scope by the last token
IntApplied ==
  /\ pc = "parsing"
  /\ tok.kind = "CHANGE_VECTOR" /\ tok.sval = ""
  /\ module # NoModule
  /\ IsRegTopModule(tok.id)

\* C8: for 0 <= v with v.bit_length() <= W, int2bit_array(v) is a W-entry
\* array b, most significant bit first, with sum of b[i] * 2^(W-1-i) equal to
\* v: the state an applied update leaves encodes the value of its token.
C8_BitArrayRoundTrip ==
  IntApplied =>
    LET reg == signals[DictGet(module.variables, tok.id)]
    IN  /\ Len(reg.data) = reg.width
        /\ BitsToInt(reg.data) = tok.ival
        /\ \E n \in 1..Len(reg.timing_assignments) :
             /\ reg.timing_assignments[n].key = timestamp
             /\ BitsToInt(reg.timing_assignments[n].val) = tok.ival

\* binary 10 stored in a signal of width 2
C8_Witness ==
  /\ IntApplied
  /\ tok.ival = 2
  /\ signals[DictGet(module.variables, tok.id)].width = 2
  /\ signals[DictGet(module.variables, tok.id)].data = <<1, 0>>

\* ------------------------------------------------------------------ C9
\* C9: every bit-vector stored in a signal's timeline has exactly width
\* entries, each 0 or 1.
C9_StoredVectorsHaveWidth ==
  \A r \in 1..Len(signals) :
    \A n \in 1..Len(signals[r].timing_assignments) :
      LET b == signals[r].timing_assignments[n].val
      IN  /\ Len(b) = signals[r].width
          /\ \A k \in 1..Len(b) : b[k] \in {0, 1}

\* two signals of different widths, each holding an entry
C9_Witness ==
  \E r, q \in 1..Len(signals) :
    /\ signals[r].width = 1 /\ signals[r].timing_assignments # <<>>
    /\ signals[q].width = 2 /\ signals[q].timing_assignments # <<>>

\* ----------------------------------------------------------------- C10
\* C10: in the top-only mode a value change whose identifier is not a key of
\* the top scope's mapping is ignored at any point of the stream, also before
\* any scope is open or a timescale is set: no error, no change of a timeline
\* or a flag, and the parse goes on.
C10_NonTopChangeIgnored ==
  [][ ( /\ ntok' = ntok + 1
        /\ tok'.kind \in {"CHANGE_SCALAR", "CHANGE_VECTOR"}
        /\ ~full
        /\ ~IsRegTopModule(tok'.id) )
      => /\ pc' = "parsing"
         /\ err' = ""
         /\ signals' = signals ]_vars

\* ------------------------------------------------------------------- C11
\* the window after a scope-close and before the next scope-open: the last
\* scope token was a scope-close, which is when the parser's scope is None
\* although a scope has been opened
AfterScopeClose == scope = NoScope /\ module # NoModule

\* C11: after a scope-close and until the next scope-open no scope is
\* current, so a variable declaration consumed in that window is attached to
\* no scope: it changes neither the top scope's variables nor a side scope's.
C11_NoAttachAfterScopeClose ==
  [][(AfterScopeClose /\ ntok' = ntok + 1 /\ tok'.kind = "VAR")
       => (module' = module /\ shadow_modules' = shadow_modules)]_vars

\* ------------------------------------------------------------------- C12
\* the Register objects a side scope maps an identifier code to
ShadowRegs ==
  UNION {{shadow_modules[k].variables[i].val : i \in 1..Len(shadow_modules[k].variables)}
           : k \in 1..Len(shadow_modules)}

\* a scope-open step; the parser's scope is the name the token carried
OpensScope == ntok' = ntok + 1 /\ tok'.kind = "SCOPE"

\* the emitted text has one chunk per variable of the top scope, and every
\* directive of a chunk is named after the Register of that variable
OutputIsOfTopScope ==
  /\ Len(out) = Len(module.variables)
  /\ \A i \in 1..Len(out) : \A k \in 1..Len(out[i]) :
       out[i][k].name.base = TopReg(i).name

\* C12: the top scope is the first scope opened and no later scope-open
\* replaces it; a scope opened later under another name is appended to the
\* side list; a variable declared while a side scope is current is attached
\* to that side scope, is never one of the top scope's signals, and the
\* emitted output has directives of the top scope's signals only.
C12_TopScopeFixedSideScopesSilent ==
  /\ [](ShadowRegs \cap TopRegs = {})
  /\ [](pc = "exported" => OutputIsOfTopScope)
  /\ [][/\ (OpensScope /\ module = NoModule) =>
              (module'.name = scope' /\ current_module' = 1 /\ shadow_modules' = <<>>)
        /\ module # NoModule => module'.name = module.name
        /\ (OpensScope /\ module # NoModule /\ scope' # module.name) =>
              /\ module' = module
              /\ shadow_modules' = Append(shadow_modules, [name |-> scope', variables |-> <<>>])
              /\ current_module' = Len(shadow_modules') + 1
        /\ (ntok' = ntok + 1 /\ tok'.kind = "VAR" /\ current_module > 1
              /\ Len(signals') = Len(signals) + 1) =>
              /\ module' = module
              /\ Len(signals') \in ShadowRegs'
       ]_vars

\* an export of a top scope with a signal while a side scope holds one too
C12_Witness ==
  /\ pc = "exported"
  /\ ShadowRegs # {}
  /\ Len(module.variables) >= 1
  /\ \E i \in 1..Len(out) : out[i] # <<>>

\* ------------------------------------------------------------------- C13
\* the lexer raised on the last call of next(self.t)
LexerFailed == tok.kind = "ERROR"

\* the run ended in __main__'s handler or in sys.exit(-1): exit status -1
ExitsNonZero == pc = "crashed" /\ err # ""

\* C13: once the lexer has raised, after any number of tokens, parse has
\* yielded no document (it has returned None or has been left by the
\* exception, never the document it was building), the export is never
\* called, the output file is never opened, no text is written, and the one
\* step left to the pipeline ends it with a non-zero exit status.
C13_LexErrorNoDocumentNoOutput ==
  /\ [](LexerFailed =>
          /\ pc \in {"failed", "crashed"}
          /\ pc = "crashed" => ExitsNonZero
          /\ ~written
          /\ out = <<>>
          /\ expr = NoExpr)
  /\ [][pc = "failed" => (LexerFailed' /\ ExitsNonZero')]_vars

\* the pipeline has ended on a lexer error that parse had caught, raised
\* after a signal of the top scope had been given a timeline entry
C13_Witness ==
  /\ LexerFailed
  /\ ExitsNonZero
  /\ err = "AttributeError"
  /\ \E r \in TopRegs : signals[r].timing_assignments # <<>>

\* ------------------------------------------------------------------- C14
\* the step that consumes a value change, scalar or vector
ChangeStep == ntok' = ntok + 1 /\ tok'.kind \in {"CHANGE_SCALAR", "CHANGE_VECTOR"}

\* C14 as stated: a value change consumed while no timescale has been
\* processed stops the parse with a fatal error, whatever identifier the
\* change carries.
C14_AnyChangeBeforeTimescaleFatal ==
  [][(ChangeStep /\ timescale = NoTimescale) =>
       (pc' = "crashed" /\ err' # "" /\ signals' = signals)]_vars

\* C14, amended: a value change consumed while no timescale has been
\* processed stops the parse with a fatal error when its identifier is one of
\* the top scope's or no scope has been opened; a change for any other
\* identifier is dropped and the parse goes on.  Either way nothing is
\* recorded: while the timescale is unset every timeline is empty and no
\* signal is tagged.
C14_TopChangeBeforeTimescaleFatal ==
  /\ [](timescale = NoTimescale =>
          \A r \in 1..Len(signals) :
            signals[r].timing_assignments = <<>> /\ signals[r].export_pwl_safe)
  /\ [][(ChangeStep /\ timescale = NoTimescale) =>
          /\ signals' = signals
          /\ IF module = NoModule \/ IsRegTopModule(tok'.id)
             THEN pc' = "crashed" /\ err' # ""
             ELSE pc' = "parsing"]_vars

\* the parse has stopped on a change of a top scope's signal with no
\* timescale processed
C14_Witness ==
  /\ pc = "crashed"
  /\ err = "AttributeError"
  /\ tok.kind \in {"CHANGE_SCALAR", "CHANGE_VECTOR"}
  /\ timescale = NoTimescale
  /\ module # NoModule
  /\ IsRegTopModule(tok.id)

\* ------------------------------------------------------------------- C15
\* the step that consumes a value change carrying x or z for a signal of the
\* top scope
XZTopStep ==
  /\ ntok' = ntok + 1
  /\ tok'.kind \in {"CHANGE_SCALAR", "CHANGE_VECTOR"}
  /\ HasXZ(tok'.sval)
  /\ module # NoModule
  /\ IsRegTopModule(tok'.id)

\* what a step leaves alone when it touches at most the flag of signal r: no
\* timeline gains an entry, every other signal is as it was, and so are the
\* tick cursor, the scope cursor and the scopes
IsolatedTo(r) ==
  /\ Len(signals') = Len(signals)
  /\ \A q \in 1..Len(signals) :
       /\ signals'[q].timing_assignments = signals[q].timing_assignments
       /\ q # r => signals'[q] = signals[q]
  /\ timestamp' = timestamp
  /\ scope' = scope
  /\ current_module' = current_module
  /\ module' = module
  /\ shadow_modules' = shadow_modules
  /\ timescale' = timescale

\* C15 as stated: an x/z change for a signal s of the top scope is isolated
\* to s and the parse continues.
C15_XZIsolatedAndParsingContinues ==
  [][XZTopStep =>
       (pc' = "parsing" /\ IsolatedTo(DictGet(module.variables, tok'.id)))]_vars

\* C15, amended: once a timescale has been processed, an x/z change for a
\* signal s of the top scope tags s, adds no entry to any timeline, leaves
\* every other signal, the tick cursor and the scope cursor as they were, and
\* the parse continues; a later in-width update of another top-scope signal
\* is recorded at the current tick and touches that signal only.
C15_XZIsolatedOnceTimescaleSet ==
  [][/\ (XZTopStep /\ timescale # NoTimescale) =>
          LET s == DictGet(module.variables, tok'.id)
          IN  /\ pc' = "parsing" /\ err' = ""
              /\ ~signals'[s].export_pwl_safe
              /\ IsolatedTo(s)
     /\ ReachesUpdate =>
          LET r == DictGet(module.variables, tok'.id)
          IN  (/\ tok'.ival < 2^(signals[r].width)
               /\ \E s \in TopRegs : s # r /\ ~signals[s].export_pwl_safe) =>
                 /\ pc' = "parsing"
                 /\ \E n \in 1..Len(signals'[r].timing_assignments) :
                      /\ signals'[r].timing_assignments[n].key = timestamp
                      /\ BitsToInt(signals'[r].timing_assignments[n].val) = tok'.ival
                 /\ signals'[r].export_pwl_safe = signals[r].export_pwl_safe
                 /\ \A q \in 1..Len(signals) : q # r => signals'[q] = signals[q]
    ]_vars

\* an update recorded for one top-scope signal after another was tagged
C15_Witness ==
  /\ IntApplied
  /\ LET r == DictGet(module.variables, tok.id)
     IN  /\ signals[r].export_pwl_safe
         /\ signals[r].timing_assignments # <<>>
         /\ \E s \in TopRegs :
              /\ s # r
              /\ ~signals[s].export_pwl_safe
              /\ signals[s].timing_assignments = <<>>

\* ------------------------------------------------------------------- C16
\* a rendered number with its trailing zeros stripped: no zero ends the
\* fractional digits, and a whole number has none
MinimalDecimal(num) == num.fd = <<>> \/ num.fd[Len(num.fd)] # 0

\* the numeric arguments of the quoted fields of the exported text
ExportedNumbers ==
  UNION {UNION {UNION {{out[d[1]][d[2]].segs[n][f].args[a] :
                          a \in {b \in 1..Len(out[d[1]][d[2]].segs[n][f].args) :
                                   out[d[1]][d[2]].segs[n][f].args[b].unit # ""}}
                        : f \in 1..Len(out[d[1]][d[2]].segs[n])}
                : n \in 1..Len(out[d[1]][d[2]].segs)}
         : d \in ExportedDirectives}

\* C16: every number the resolver renders, the bare time of a segment and the
\* number inside a time-plus-parameter sum alike, is in minimal decimal form:
\* 5.0 is rendered 5ns, 5.25 is rendered 5.25ns.
C16_NumbersMinimalDecimal ==
  pc = "exported" => \A a \in ExportedNumbers : MinimalDecimal(a.num)

\* ------------------------------------------------------------------- C17
\* C17: the exported text lists the signals of the top scope in the order of
\* their variable-declaration tokens, whatever the declarations were (an
\* identifier code declared twice included), and the directives of one
\* signal from the most significant bit down.  A Register's position in
\* top.signals is the position of its declaration in the stream.
C17_DeclarationOrderMsbFirst ==
  pc = "exported" =>
    /\ Len(out) = Len(module.variables)
    /\ \A i, j \in 1..Len(out) :
         i < j => module.variables[i].val < module.variables[j].val
    /\ \A d \in ExportedDirectives :
         /\ out[d[1]][d[2]].name.base = TopReg(d[1]).name
         /\ TopReg(d[1]).width > 1 =>
              out[d[1]][d[2]].name.idx = TopReg(d[1]).width - d[2]

\* ------------------------------------------------------------------- C18
\* the positions of a timeline whose entry is for tick t
EntriesAt(tl, t) == {n \in 1..Len(tl) : tl[n].key = t}

\* C18: the last write for a tick wins.  A timeline never holds two entries
\* for one tick; an update at a tick the timeline already has an entry for,
\* whatever was updated in between, replaces that entry's value and adds no
\* entry; after any update the one entry of the current tick and the
\* last-known state are the bit array of the value just written, and the
\* emitter, which reads the timeline, has at most one segment per entry.
C18_LastWriteWins ==
  /\ [](\A r \in 1..Len(signals) : \A t \in 0..MaxTick :
          Cardinality(EntriesAt(signals[r].timing_assignments, t)) <= 1)
  /\ [](pc = "exported" =>
          \A d \in ExportedDirectives :
            Len(out[d[1]][d[2]].segs) <= Len(TopReg(d[1]).timing_assignments))
  /\ [][ReachesUpdate =>
          LET r   == DictGet(module.variables, tok'.id)
              old == signals[r].timing_assignments
              new == signals'[r].timing_assignments
          IN  tok'.ival < 2^(signals[r].width) =>
                /\ Cardinality(EntriesAt(new, timestamp)) = 1
                /\ \A n \in EntriesAt(new, timestamp) :
                     /\ Len(new[n].val) = signals[r].width
                     /\ BitsToInt(new[n].val) = tok'.ival
                /\ BitsToInt(signals'[r].data) = tok'.ival
                /\ EntriesAt(old, timestamp) # {} =>
                     /\ Len(new) = Len(old)
                     /\ \A n \in 1..Len(old) :
                          /\ new[n].key = old[n].key
                          /\ old[n].key # timestamp => new[n].val = old[n].val
    ]_vars

\* an update has rewritten the entry of a tick that was written before an
\* entry of another tick
C18_Witness ==
  /\ IntApplied
  /\ LET tl == signals[DictGet(module.variables, tok.id)].timing_assignments
     IN  /\ Len(tl) >= 2
         /\ tl[1].key = timestamp
         /\ BitsToInt(tl[1].val) = tok.ival
         /\ tl[2].val # tl[1].val

\* ------------------------------------------------------------------- C19
\* the parameter the claim gives a signal name, and the other one
OwnParam(name)   == IF name = "CLK" THEN "tcrf" ELSE "trf"
OtherParam(name) == IF name = "CLK" THEN "trf" ELSE "tcrf"

\* C19: the rise/fall parameter of a transition is tcrf when the signal's
\* name is exactly CLK, for every bit of a bus of that name, and trf for any
\* other name (clk and CLK2 included): the sum of a ramp names that parameter,
\* and the text of a signal is the same whatever value the other parameter
\* has.
C19_ClkUsesTcrfOthersTrf ==
  pc = "exported" =>
    \A i \in 1..Len(out) :
      LET reg == TopReg(i)
      IN  /\ \A k \in 1..Len(out[i]) : \A n \in 1..Len(out[i][k].segs) :
               Len(out[i][k].segs[n]) = 4 =>
                 /\ out[i][k].segs[n][3].q
                 /\ out[i][k].segs[n][3].args[1].txt = OwnParam(reg.name)
          /\ \A v \in 0..MaxRf :
               out[i] = GeneratePiecewiseLinear(reg, timescale,
                          [expr EXCEPT ![OtherParam(reg.name)] = v])

\* both bits of a bus named CLK ramp on tcrf while trf has another value
C19_Witness ==
  /\ pc = "exported"
  /\ expr.tcrf = 0 /\ expr.trf # 0
  /\ \E i \in 1..Len(out) :
       /\ TopReg(i).name = "CLK"
       /\ TopReg(i).width = 2
       /\ Len(out[i]) = 2
       /\ \A k \in 1..2 : \E n \in 1..Len(out[i][k].segs) :
            /\ Len(out[i][k].segs[n]) = 4
            /\ out[i][k].segs[n][3].args[1].txt = "tcrf"

\* ------------------------------------------------------------------- C20
\* the numeric arguments of a result of eval_expr
NumericArgs(args) == {a \in 1..Len(args) : args[a].unit # ""}

\* C20: for every base of at least 1 and every unit, eval_expr(e, base, unit)
\* returns, every number of its result is the number of e times base with the
\* unit appended, and the parameter name of a sum is passed through as it is.
C20_ResolveScalesByBase ==
  pc = "resolved" =>
    /\ eval_result.raised = ""
    /\ \A a \in NumericArgs(eval_result.args) :
         /\ NumValue(eval_result.args[a].num)
              = (eval_args.t.whole * 1000 + eval_args.t.milli) * eval_args.base
         /\ eval_result.args[a].unit = eval_args.unit
    /\ eval_args.sym # "" =>
         /\ eval_result.args # <<>>
         /\ eval_result.args[1] = SymArg(eval_args.sym)

\* ------------------------------------------------------------------- C21
\* C21: an export-safe signal of the top scope whose timeline is empty when
\* the text is written is not skipped: the text has one directive for each
\* of its bit positions, named as the bit is (the bare name at width 1, the
\* name and the bit index from the most significant bit down on a bus), and
\* the directive has no segment between its header and the closing bracket.
\* A directive without segments is that of an empty timeline only.
C21_EmptyTimelineStillEmitted ==
  pc = "exported" =>
    \A i \in 1..Len(out) :
      LET reg == TopReg(i)
      IN  reg.export_pwl_safe =>
            /\ Len(out[i]) = reg.width
            /\ \A k \in 1..Len(out[i]) :
                 /\ out[i][k].name.base = reg.name
                 /\ out[i][k].name.idx = IF reg.width > 1 THEN reg.width - k ELSE -1
                 /\ (out[i][k].segs = <<>>) = (reg.timing_assignments = <<>>)

\* the text of a bus that was declared and never updated, next to a signal
\* that was
C21_Witness ==
  /\ pc = "exported"
  /\ \E i, j \in 1..Len(out) :
       /\ TopReg(i).export_pwl_safe
       /\ TopReg(i).timing_assignments = <<>>
       /\ TopReg(i).width = 2
       /\ Len(out[i]) = 2
       /\ out[i][1].segs = <<>> /\ out[i][2].segs = <<>>
       /\ TopReg(j).timing_assignments # <<>>
       /\ out[j] # <<>>

\* ------------------------------------------------------------------- C22
\* the Register has never been written: no timeline entry, no x-state tag,
\* the last-known state still the zeros of its construction
Untouched(reg) ==
  /\ reg.timing_assignments = <<>>
  /\ reg.export_pwl_safe
  /\ reg.data = [k \in 1..reg.width |-> 0]

====
